---------------------------- MODULE Spec2Model ----------------------------
(***************************************************************************)
(* BB84 quantum key distribution, notebooks/BB84.ipynb.                    *)
(*                                                                         *)
(* The notebook has three code cells that matter: the one drawing the      *)
(* three random bit strings, the definition of make_bb84_circ, and the one *)
(* that builds the circuit, runs it for one shot, sifts the key and prints *)
(* its statistics.  Python arrays and strings are modelled as sequences;   *)
(* Python index i is element i+1.  A raised exception ends the run in      *)
(* pc = "error" with the exception's name in err.                          *)
(***************************************************************************)
EXTENDS Integers, Sequences, FiniteSets, TLC

VARIABLES
    pc,           \* the statement the kernel executes next
    num_qubits,   \* global num_qubits
    alice_basis,  \* global alice_basis
    alice_state,  \* global alice_state
    bob_basis,    \* global bob_basis
    bb84_circ,    \* global bb84_circ
    temp_key,     \* global temp_key, a string over "0"/"1"
    key,          \* global key, a string over "0"/"1"
    report,       \* the three numbers printed by the last cell
    err,          \* the exception that ended the run, or "none"
    trace         \* the calls made so far, in order

vars == <<pc, num_qubits, alice_basis, alice_state, bob_basis, bb84_circ,
          temp_key, key, report, err, trace>>

----------------------------------------------------------------------------
(* Bounds *)

\* largest num_qubits of a regular run (the notebook sets 32)
MaxN == 3

\* longest basis string of a cell run on arbitrary kernel globals
MaxArg == 3

----------------------------------------------------------------------------
(* Python values *)

\* a[i] for 0 <= i < len(a)
At(a, i) == a[i + 1]

\* range(n)
Range(n) == 0 .. (n - 1)

\* all arrays of length n over S
Arrays(S, n) == [1 .. n -> S]

\* all arrays over S with length in lo..hi
ArraysBetween(S, lo, hi) == UNION {Arrays(S, n) : n \in lo .. hi}

\* np.random.randint(high, size=size): the set of possible outcomes.
\* A negative size raises ValueError; size 0 gives the empty array.
randint(high, size) ==
    IF size < 0
      THEN {[status |-> "ValueError", value |-> <<>>]}
      ELSE {[status |-> "ok", value |-> a] : a \in Arrays(0 .. (high - 1), size)}

\* s.count(c) for a string s and a character c
RECURSIVE count(_, _)
countSkipsLast(s, c) ==
    IF Len(s) <= 1 THEN 0
    ELSE count(Tail(s), c) + (IF Head(s) = c THEN 1 ELSE 0)
count(s, c) ==
    IF s = <<>> THEN 0
    ELSE count(Tail(s), c) + (IF Head(s) = c THEN 1 ELSE 0)

----------------------------------------------------------------------------
(* Circuits: a number of qubits and a list of instructions.  A gate names  *)
(* the qubits it acts on; a measurement also names the classical bits.     *)

Gate(name, qubits) == [name |-> name, qubits |-> qubits, clbits |-> <<>>]

AllQubits(n) == [j \in 1 .. n |-> j - 1]

\* QuantumCircuit.barrier() without arguments spans every qubit
Barrier(n) == Gate("barrier", AllQubits(n))

\* QuantumCircuit.measure_all(): qubit j is measured into classical bit j
MeasureAll(n) == [name |-> "measure", qubits |-> AllQubits(n), clbits |-> AllQubits(n)]

NoCircuit == [status |-> "undefined"]

\* body of the sender's loop for one index: X when the state bit is 1,
\* then H when the basis bit is 1
PrepareQubitHFirst(state_bit, basis_bit, index) ==
    (IF basis_bit = 1 THEN <<Gate("h", <<index>>)>> ELSE <<>>)
    \o (IF state_bit = 1 THEN <<Gate("x", <<index>>)>> ELSE <<>>)
PrepareQubit(state_bit, basis_bit, index) ==
    (IF state_bit = 1 THEN <<Gate("x", <<index>>)>> ELSE <<>>)
    \o (IF basis_bit = 1 THEN <<Gate("h", <<index>>)>> ELSE <<>>)

\* body of the receiver's loop for one index: H when the basis bit is 1
RotateQubit(basis_bit, index) ==
    IF basis_bit = 1 THEN <<Gate("h", <<index>>)>> ELSE <<>>

\* for index in range(len(enc_basis)): enc_state[index] raises IndexError
\* past the end of enc_state
RECURSIVE PrepareLoop(_, _, _, _)
PrepareLoop(enc_state, enc_basis, index, data) ==
    IF index >= Len(enc_basis) THEN [status |-> "ok", data |-> data]
    ELSE IF index >= Len(enc_state) THEN [status |-> "IndexError", data |-> data]
    ELSE PrepareLoop(enc_state, enc_basis, index + 1,
             data \o PrepareQubit(At(enc_state, index), At(enc_basis, index), index))

\* for index in range(len(meas_basis)): h(index) raises CircuitError when the
\* circuit has no qubit index
RECURSIVE MeasureLoop(_, _, _, _)
MeasureLoop(n, meas_basis, index, data) ==
    IF index >= Len(meas_basis) THEN [status |-> "ok", data |-> data]
    ELSE IF At(meas_basis, index) = 1 /\ index >= n
      THEN [status |-> "CircuitError", data |-> data]
    ELSE MeasureLoop(n, meas_basis, index + 1,
             data \o RotateQubit(At(meas_basis, index), index))

\* make_bb84_circ(enc_state, enc_basis, meas_basis)
make_bb84_circ_rotate_first(enc_state, enc_basis, meas_basis) ==
    LET n    == Len(enc_state)
        meas == MeasureLoop(n, meas_basis, 0, <<>>)
        prep == PrepareLoop(enc_state, enc_basis, 0, meas.data \o <<Barrier(n)>>)
    IN  IF meas.status # "ok" THEN [status |-> meas.status, circ |-> NoCircuit]
        ELSE IF prep.status # "ok" THEN [status |-> prep.status, circ |-> NoCircuit]
        ELSE [status |-> "ok",
              circ |-> [num_qubits |-> n,
                        data |-> prep.data \o <<Barrier(n), MeasureAll(n)>>]]
make_bb84_circ(enc_state, enc_basis, meas_basis) ==
    LET n    == Len(enc_state)
        prep == PrepareLoop(enc_state, enc_basis, 0, <<>>)
        meas == MeasureLoop(n, meas_basis, 0, prep.data \o <<Barrier(n)>>)
    IN  IF prep.status # "ok" THEN [status |-> prep.status, circ |-> NoCircuit]
        ELSE IF meas.status # "ok" THEN [status |-> meas.status, circ |-> NoCircuit]
        ELSE [status |-> "ok",
              circ |-> [num_qubits |-> n,
                        data |-> meas.data \o <<Barrier(n), MeasureAll(n)>>]]

----------------------------------------------------------------------------
(* The simulator, as the last cell uses it: one shot of a circuit whose    *)
(* qubits start in |0> and see only X and H, so each qubit is in one of    *)
(* |0>, |1>, |+>, |-> (up to a global phase).                              *)

\* the number of shots the last cell asks for
shotsTwo == 1 + 1
shots == 1

\* X and H on the four states; a barrier leaves the state alone
ApplyGate(name, st) ==
    CASE name = "x" -> (CASE st = "0" -> "1" [] st = "1" -> "0" [] OTHER -> st)
      [] name = "h" -> (CASE st = "0" -> "+" [] st = "1" -> "-"
                          [] st = "+" -> "0" [] OTHER -> "1")
      [] OTHER -> st

\* the state of qubit q after the first k instructions
RECURSIVE StateAfter(_, _, _)
StateAfter(data, k, q) ==
    IF k = 0 THEN "0"
    ELSE LET prev == StateAfter(data, k - 1, q)
             ins  == data[k]
         IN  IF ins.name \in {"x", "h"} /\ ins.qubits = <<q>>
               THEN ApplyGate(ins.name, prev)
               ELSE prev

\* a computational-basis measurement: certain on |0> and |1>, either bit
\* on |+> and |->
MeasureOutcomes(st) ==
    CASE st = "0" -> {0} [] st = "1" -> {1} [] OTHER -> {0, 1}

\* QuantumCircuit.reverse_bits(): wire j becomes wire n-1-j, for the qubits
\* and for the classical bits
reverse_bits_identity(circ) == circ
reverse_bits(circ) ==
    LET n      == circ.num_qubits
        Flip(w) == [j \in 1 .. Len(w) |-> n - 1 - w[j]]
    IN  [num_qubits |-> n,
         data |-> [k \in 1 .. Len(circ.data) |->
                      [name   |-> circ.data[k].name,
                       qubits |-> Flip(circ.data[k].qubits),
                       clbits |-> Flip(circ.data[k].clbits)]]]

\* the classical memories one shot can leave: bit c holds an outcome of the
\* qubit measured into it
Memories(circ) ==
    {mem \in [Range(circ.num_qubits) -> {0, 1}] :
        \A k \in 1 .. Len(circ.data) :
            circ.data[k].name = "measure" =>
                \A j \in 1 .. Len(circ.data[k].qubits) :
                    mem[circ.data[k].clbits[j]] \in
                        MeasureOutcomes(StateAfter(circ.data, k - 1,
                                                   circ.data[k].qubits[j]))}

BitChar(b) == IF b = 0 THEN "0" ELSE "1"

\* a key of get_counts(): the classical bits written with the highest
\* index leftmost
CountsKey(n, mem) == [p \in 1 .. n |-> BitChar(mem[n - p])]

\* execute(circ, shots=1).result().get_counts().most_frequent(): with one
\* shot the counts hold one key, the memory that shot left
execute(circ) == {CountsKey(circ.num_qubits, mem) : mem \in Memories(circ)}

----------------------------------------------------------------------------
(* The sifting loop and the statistics of the last cell *)

\* for i in range(num_qubits): indexing past the end of an array or of the
\* string raises IndexError; temp_key[i] is read only where the bases agree
RECURSIVE SiftLoop(_, _, _, _, _, _)
SiftLoopKeepsDisagreeing(n, a_basis, b_basis, t_key, i, k) ==
    IF i >= n THEN [status |-> "ok", key |-> k]
    ELSE IF i >= Len(a_basis) \/ i >= Len(b_basis)
      THEN [status |-> "IndexError", key |-> k]
    ELSE IF At(a_basis, i) = At(b_basis, i)
      THEN SiftLoop(n, a_basis, b_basis, t_key, i + 1, k)
    ELSE IF i >= Len(t_key) THEN [status |-> "IndexError", key |-> k]
    ELSE SiftLoop(n, a_basis, b_basis, t_key, i + 1, Append(k, At(t_key, i)))
SiftLoop(n, a_basis, b_basis, t_key, i, k) ==
    IF i >= n THEN [status |-> "ok", key |-> k]
    ELSE IF i >= Len(a_basis) \/ i >= Len(b_basis)
      THEN [status |-> "IndexError", key |-> k]
    ELSE IF At(a_basis, i) # At(b_basis, i)
      THEN SiftLoop(n, a_basis, b_basis, t_key, i + 1, k)
    ELSE IF i >= Len(t_key) THEN [status |-> "IndexError", key |-> k]
    ELSE SiftLoop(n, a_basis, b_basis, t_key, i + 1, Append(k, At(t_key, i)))

NoReport == [status |-> "undefined"]

\* the numbers the two print statements show
KeyReport(k) ==
    [length |-> Len(k), zeroes |-> count(k, "0"), ones |-> count(k, "1")]

----------------------------------------------------------------------------
(* The cells, statement by statement *)

Call(op, args) == [op |-> op, args |-> args]

Raise(name) == pc' = "error" /\ err' = name

\* alice_basis = np.random.randint(2, size=num_qubits)
GenAliceBasis ==
    /\ pc = "gen_alice_basis"
    /\ trace' = Append(trace, Call("randint", <<num_qubits>>))
    /\ \E r \in randint(2, num_qubits) :
          IF r.status = "ok"
            THEN alice_basis' = r.value /\ pc' = "gen_alice_state" /\ err' = err
            ELSE Raise(r.status) /\ UNCHANGED alice_basis
    /\ UNCHANGED <<num_qubits, alice_state, bob_basis, bb84_circ, temp_key, key, report>>

\* alice_state = np.random.randint(2, size=num_qubits)
GenAliceState ==
    /\ pc = "gen_alice_state"
    /\ trace' = Append(trace, Call("randint", <<num_qubits>>))
    /\ \E r \in randint(2, num_qubits) :
          IF r.status = "ok"
            THEN alice_state' = r.value /\ pc' = "gen_bob_basis" /\ err' = err
            ELSE Raise(r.status) /\ UNCHANGED alice_state
    /\ UNCHANGED <<num_qubits, alice_basis, bob_basis, bb84_circ, temp_key, key, report>>

\* bob_basis = np.random.randint(2, size=num_qubits)
GenBobBasis ==
    /\ pc = "gen_bob_basis"
    /\ trace' = Append(trace, Call("randint", <<num_qubits>>))
    /\ \E r \in randint(2, num_qubits) :
          IF r.status = "ok"
            THEN bob_basis' = r.value /\ pc' = "print_strings" /\ err' = err
            ELSE Raise(r.status) /\ UNCHANGED bob_basis
    /\ UNCHANGED <<num_qubits, alice_basis, alice_state, bb84_circ, temp_key, key, report>>

\* the three print statements that end the first cell; the last cell runs next
PrintStrings ==
    /\ pc = "print_strings"
    /\ pc' = "build"
    /\ UNCHANGED <<num_qubits, alice_basis, alice_state, bob_basis, bb84_circ,
                   temp_key, key, report, err, trace>>

\* QuantumCircuit(0) followed by measure_all() raises CircuitError in the
\* releases whose registers must have a positive size and succeeds in the
\* later ones: both outcomes are possible
EmptyCircuitOutcomes(n) == IF n = 0 THEN {"ok", "CircuitError"} ELSE {"ok"}

\* bb84_circ = make_bb84_circ(alice_state, alice_basis, bob_basis)
Build ==
    /\ pc = "build"
    /\ trace' = Append(trace, Call("make_bb84_circ", <<alice_state, alice_basis, bob_basis>>))
    /\ LET r == make_bb84_circ(alice_state, alice_basis, bob_basis)
       IN  \E lib \in EmptyCircuitOutcomes(Len(alice_state)) :
              IF r.status # "ok" THEN Raise(r.status) /\ UNCHANGED bb84_circ
              ELSE IF lib # "ok" THEN Raise(lib) /\ UNCHANGED bb84_circ
              ELSE bb84_circ' = r.circ /\ pc' = "execute" /\ err' = err
    /\ UNCHANGED <<num_qubits, alice_basis, alice_state, bob_basis, temp_key, key, report>>

\* running a circuit without qubits is refused by some releases of the
\* simulator and gives the empty string in others
EmptyRunOutcomes(n) == IF n = 0 THEN {"ok", "QiskitError"} ELSE {"ok"}

\* temp_key = execute(bb84_circ.reverse_bits(), backend=QasmSimulator(),
\*                    shots=1).result().get_counts().most_frequent()
Execute ==
    /\ pc = "execute"
    /\ trace' = Append(trace, Call("execute", <<shots>>))
    /\ \E lib \in EmptyRunOutcomes(bb84_circ.num_qubits) :
          IF lib # "ok" THEN Raise(lib) /\ UNCHANGED temp_key
          ELSE /\ temp_key' \in execute(reverse_bits(bb84_circ))
               /\ pc' = "sift"
               /\ err' = err
    /\ UNCHANGED <<num_qubits, alice_basis, alice_state, bob_basis, bb84_circ, key, report>>

\* key = ''; for i in range(num_qubits): ... key += str(temp_key[i])
Sift ==
    /\ pc = "sift"
    /\ trace' = Append(trace, Call("sift", <<alice_basis, bob_basis, temp_key>>))
    /\ LET r == SiftLoop(num_qubits, alice_basis, bob_basis, temp_key, 0, <<>>)
       IN  /\ key' = r.key
           /\ IF r.status = "ok" THEN pc' = "report" /\ err' = err
                                 ELSE Raise(r.status)
    /\ UNCHANGED <<num_qubits, alice_basis, alice_state, bob_basis, bb84_circ,
                   temp_key, report>>

\* the three print statements of the last cell
Report ==
    /\ pc = "report"
    /\ trace' = Append(trace, Call("report", <<key>>))
    /\ report' = KeyReport(key)
    /\ pc' = "done"
    /\ UNCHANGED <<num_qubits, alice_basis, alice_state, bob_basis, bb84_circ,
                   temp_key, key, err>>

Next ==
    \/ GenAliceBasis
    \/ GenAliceState
    \/ GenBobBasis
    \/ PrintStrings
    \/ Build
    \/ Execute
    \/ Sift
    \/ Report

\* a fresh kernel running the cells top to bottom
FreshKernel(sizes) ==
    /\ pc = "gen_alice_basis"
    /\ num_qubits \in sizes
    /\ alice_basis = <<>>
    /\ alice_state = <<>>
    /\ bob_basis = <<>>
    /\ bb84_circ = NoCircuit
    /\ temp_key = <<>>
    /\ key = <<>>
    /\ report = NoReport
    /\ err = "none"
    /\ trace = <<>>

\* the notebook as written, for a positive number of qubits
Init == FreshKernel(1 .. MaxN)

Spec == Init /\ [][Next]_vars

\* the last cell run on globals the first cell did not produce: strings of
\* different lengths, or entries that are not bits
LastCellOn(states, bases, sizes) ==
    /\ pc = "build"
    /\ num_qubits \in sizes
    /\ alice_state \in states
    /\ alice_basis \in bases
    /\ bob_basis \in bases
    /\ bb84_circ = NoCircuit
    /\ temp_key = <<>>
    /\ key = <<>>
    /\ report = NoReport
    /\ err = "none"
    /\ trace = <<>>

SameLengthOn(S) ==
    \E n \in 1 .. MaxArg :
        /\ LastCellOn(Arrays(S, n), Arrays(S, n), {n})

KernelInit ==
    \/ FreshKernel(-1 .. MaxN)
    \/ LastCellOn(ArraysBetween({0, 1}, 1, MaxArg + 1),
                  ArraysBetween({0, 1}, 0, MaxArg), 0 .. MaxArg + 1)
    \/ SameLengthOn({0, 1, 2})

KernelSpec == KernelInit /\ [][Next]_vars

----------------------------------------------------------------------------
(* Properties *)

\* the indices where the two basis strings agree
Agree == {i \in Range(num_qubits) : At(alice_basis, i) = At(bob_basis, i)}

\* the k-th agreeing index in ascending order, k = 1, 2, ...
KthAgree(k) == CHOOSE j \in Agree : Cardinality({a \in Agree : a < j}) = k - 1

Sifted == pc \in {"report", "done"}

Built == bb84_circ # NoCircuit

\* C1: once the sifting loop has run on three strings of length num_qubits,
\* the key has as many bits as there are indices where the bases agree, its
\* k-th bit is the outcome at the k-th agreeing index in ascending order, it
\* is no longer than num_qubits, it is empty when the bases agree nowhere
\* and it is the whole outcome string when they agree everywhere.
C1_SiftKeepsAgreeingInOrder ==
    (Sifted /\ Len(alice_basis) = num_qubits /\ Len(bob_basis) = num_qubits
            /\ Len(temp_key) = num_qubits) =>
        /\ Len(key) = Cardinality(Agree)
        /\ \A k \in 1 .. Len(key) : key[k] = At(temp_key, KthAgree(k))
        /\ Len(key) <= num_qubits
        /\ (Agree = {} => key = <<>>)
        /\ (Agree = Range(num_qubits) => key = temp_key)

\* C1 witness: a sifted key of two different bits taken from three qubits,
\* the dropped one lying between the two kept ones
C1_Witness ==
    /\ pc = "done"
    /\ num_qubits = 3
    /\ Agree = {0, 2}
    /\ Len(key) = 2
    /\ key[1] # key[2]

\* C2: in a complete run the outcome read at every index where the bases
\* agree is the sender's state bit, whatever was measured elsewhere, so the
\* sifted key is the sender's state bits at the agreeing indices in
\* ascending order.
C2_KeyIsSenderStateAtAgreeing ==
    /\ pc \in {"sift", "report", "done"} =>
          \A i \in Agree : At(temp_key, i) = BitChar(At(alice_state, i))
    /\ Sifted =>
          key = [k \in 1 .. Cardinality(Agree) |-> BitChar(At(alice_state, KthAgree(k)))]

\* C2 witness: a finished run whose state string is not a palindrome, with
\* two agreeing indices carrying different bits and a disagreeing index whose
\* outcome differs from the sender's bit
C2_Witness ==
    /\ pc = "done"
    /\ num_qubits = 3
    /\ alice_state = <<1, 0, 0>>
    /\ Agree = {0, 1}
    /\ key = <<"1", "0">>
    /\ At(temp_key, 2) = "1"

\* the first barrier of the assembled circuit
FirstBarrier ==
    CHOOSE k \in 1 .. Len(bb84_circ.data) :
        /\ bb84_circ.data[k].name = "barrier"
        /\ \A j \in 1 .. (k - 1) : bb84_circ.data[j].name # "barrier"

\* the names of the operations on qubit i before the first barrier, in order
PreparationOf(i) ==
    LET before == SubSeq(bb84_circ.data, 1, FirstBarrier - 1)
        mine   == SelectSeq(before, LAMBDA ins : ins.qubits = <<i>>)
    IN  [k \in 1 .. Len(mine) |-> mine[k].name]

\* C3: the preparation of a qubit is nothing for (state 0, basis 0), X for
\* (1, 0), H for (0, 1) and X then H, in that order, for (1, 1).
C3_EncodingTable ==
    Built =>
        \A i \in Range(Len(alice_state)) :
            PreparationOf(i) =
                CASE At(alice_state, i) = 0 /\ At(alice_basis, i) = 0 -> <<>>
                  [] At(alice_state, i) = 1 /\ At(alice_basis, i) = 0 -> <<"x">>
                  [] At(alice_state, i) = 0 /\ At(alice_basis, i) = 1 -> <<"h">>
                  [] At(alice_state, i) = 1 /\ At(alice_basis, i) = 1 -> <<"x", "h">>

\* C3 witness: an assembled circuit whose three qubits are prepared with
\* X then H, with X alone and with H alone
C3_Witness ==
    /\ Built
    /\ alice_state = <<1, 1, 0>>
    /\ alice_basis = <<1, 0, 1>>
    /\ PreparationOf(0) = <<"x", "h">>

\* C4: the assembled circuit is the preparation operations in increasing
\* qubit order, a barrier, one H for each qubit whose receiver basis bit is
\* 1 and nothing for the others, in increasing qubit order, a second
\* barrier, and the measurement of all qubits as the last instruction.
C4_CircuitOrder ==
    Built =>
        LET d == bb84_circ.data
            n == Len(alice_state)
        IN  \E b1, b2 \in 1 .. Len(d) :
               /\ b1 < b2
               /\ Len(d) = b2 + 1
               /\ d[b1].name = "barrier"
               /\ d[b2].name = "barrier"
               /\ d[Len(d)].name = "measure"
               /\ d[Len(d)].qubits = [j \in 1 .. n |-> j - 1]
               /\ \A k \in 1 .. (b1 - 1) :
                     /\ d[k].name \in {"x", "h"}
                     /\ Len(d[k].qubits) = 1
                     /\ \A j \in 1 .. (k - 1) : d[j].qubits[1] <= d[k].qubits[1]
               /\ \A k \in (b1 + 1) .. (b2 - 1) :
                     /\ d[k].name = "h"
                     /\ Len(d[k].qubits) = 1
                     /\ \A j \in (b1 + 1) .. (k - 1) : d[j].qubits[1] < d[k].qubits[1]
               /\ {d[k].qubits[1] : k \in (b1 + 1) .. (b2 - 1)} =
                     {i \in Range(n) : At(bob_basis, i) = 1}

\* C4 witness: an assembled circuit with preparation operations on two
\* qubits and rotations on some but not all qubits
C4_Witness ==
    /\ Built
    /\ alice_state = <<1, 0, 1>>
    /\ alice_basis = <<1, 1, 0>>
    /\ bob_basis = <<0, 1, 1>>

\* C5: generating a bit string of non-positive length fails and produces no
\* bit string; for a positive length N it gives N bits.
C5_GenerateRejectsNonPositive ==
    (trace # <<>> /\ trace[1].op = "randint") =>
        IF num_qubits <= 0
          THEN pc = "error" /\ err # "none"
          ELSE alice_basis \in Arrays({0, 1}, num_qubits)

\* C6: the sifting loop, run over two basis strings of length num_qubits,
\* fails, leaving no key, unless the outcome string has that length too.
C6_SiftRejectsLengthMismatch ==
    (/\ \E k \in 1 .. Len(trace) : trace[k].op = "sift"
     /\ num_qubits > 0
     /\ Len(alice_basis) = num_qubits
     /\ Len(bob_basis) = num_qubits) =>
        \/ pc = "error" /\ err # "none"
        \/ Len(temp_key) = num_qubits

\* C7: make_bb84_circ fails, and no circuit is returned or run, unless its
\* three strings all have the same positive length.
C7_BuildRejectsLengthMismatch ==
    (\E k \in 1 .. Len(trace) : trace[k].op = "make_bb84_circ") =>
        \/ pc = "error" /\ err # "none" /\ ~Built
        \/ /\ Len(alice_state) > 0
           /\ Len(alice_basis) = Len(alice_state)
           /\ Len(bob_basis) = Len(alice_state)

C9_CountsAddUp ==
    pc = "done" =>
        /\ report.zeroes + report.ones = report.length
        /\ report.length = Len(key)
        /\ (key = <<>> => report = [length |-> 0, zeroes |-> 0, ones |-> 0])

\* C9 witness: a finished run whose bases agree nowhere
C9_Witness ==
    /\ pc = "done"
    /\ Agree = {}
    /\ key = <<>>
    /\ report.length = 0

\* the calls of a complete run, in order
FullRun ==
    << Call("randint", <<num_qubits>>),
       Call("randint", <<num_qubits>>),
       Call("randint", <<num_qubits>>),
       Call("make_bb84_circ", <<alice_state, alice_basis, bob_basis>>),
       Call("execute", <<1>>),
       Call("sift", <<alice_basis, bob_basis, temp_key>>),
       Call("report", <<key>>) >>

\* C10: a run makes its calls one after the other in one order: three
\* generations of length num_qubits, the assembly of the circuit from the
\* three strings, one execution with one shot, the sifting of that outcome
\* with the two basis strings the circuit was built from, the statistics of
\* the finished key.
C10_RunOrder ==
    /\ Len(trace) <= Len(FullRun)
    /\ \A k \in 1 .. Len(trace) : trace[k] = FullRun[k]
    /\ pc = "done" =>
          /\ trace = FullRun
          /\ Len(alice_state) = num_qubits
          /\ Len(alice_basis) = num_qubits
          /\ Len(bob_basis) = num_qubits
          /\ Len(temp_key) = num_qubits

\* C10 witness: a finished run of three qubits with a non-empty key
C10_Witness ==
    /\ pc = "done"
    /\ num_qubits = 3
    /\ Len(trace) = 7
    /\ key # <<>>

=============================================================================
